---- MODULE Spec2Model ----
(***************************************************************************)
(* The ingestion and audit pipeline of diesel-backend: the FRED price      *)
(* fetcher (app/fetchers/fred.py), the EIA stock fetcher                   *)
(* (app/fetchers/eia.py), the tables they write (app/models.py) and the    *)
(* routes that start them (app/routes/fetch.py).                           *)
(*                                                                         *)
(* Floats are integers counting tenths (71.5 is 715).  Dates are day       *)
(* ordinals.  datetime.now() and func.now() read a logical clock that      *)
(* ticks at every step reading it.  A NULL column is None (text) or        *)
(* NullTime (timestamps).                                                  *)
(***************************************************************************)
EXTENDS Integers, Sequences, FiniteSets, TLC

\* ---- bounds of the model ------------------------------------------------
MaxInv == 2      \* single-selector invocations started by callers
MaxLen == 2      \* points in one upstream response
MaxDate == 2     \* distinct calendar dates upstream reports
MaxFanLen == 1   \* points in one upstream response, during a fan-out
ScenLen == 5     \* points of the response with one missing value

Inv == 1 .. MaxInv
Dates == 1 .. MaxDate

None == "None"
NullTime == 0

\* ---- static registries ----------------------------------------------------
FRED_SERIES == <<"DCOILBRENTEU", "DCOILWTICO", "DDFUELUSGULF", "DDFUELNYH">>

EIA_AREAS == <<"NUS", "R10", "R20", "R30", "R40", "R50">>

Range(s) == {s[k] : k \in 1 .. Len(s)}

\* FRED_SERIES.get(series_id, {}).get("unit", "unknown")
SeriesUnit(series_id) ==
    CASE series_id \in {"DCOILBRENTEU", "DCOILWTICO"} -> "$/bbl"
      [] series_id \in {"DDFUELUSGULF", "DDFUELNYH"} -> "$/gal"
      [] OTHER -> "unknown"

\* EIA_AREAS.get(area_code, {"name": area_code, "region": area_code})["region"]
AreaRegion(area_code) ==
    CASE area_code = "NUS" -> "US"
      [] area_code = "R10" -> "PADD1"
      [] area_code = "R20" -> "PADD2"
      [] area_code = "R30" -> "PADD3"
      [] area_code = "R40" -> "PADD4"
      [] area_code = "R50" -> "PADD5"
      [] OTHER -> area_code

\* ---- upstream responses ---------------------------------------------------
\* A JSON value of an observation: null/absent, a string, or a number.
Null == [t |-> "null", s |-> "", n |-> 0]
Str(s) == [t |-> "str", s |-> s, n |-> 0]
Num(n) == [t |-> "num", s |-> "", n |-> n]

\* Python truthiness of a JSON value: None, "" and 0 are falsy.
Truthy(v) == \/ v.t = "str" /\ v.s # ""
             \/ v.t = "num" /\ v.n # 0

\* float(value): the strings Python parses, in tenths; ValueError otherwise.
IsFloat(v) == \/ v.t = "num"
              \/ v.t = "str" /\ v.s \in {"0", "0.0", "70.0", "71.5"}

Float(v) ==
    IF v.t = "num" THEN 10 * v.n
    ELSE CASE v.s = "0" -> 0
           [] v.s = "0.0" -> 0
           [] v.s = "70.0" -> 700
           [] v.s = "71.5" -> 715
           [] OTHER -> 0

NoUnits == "absent"

\* date.today(), the newest day upstream can have an observation of
Today == MaxDate

\* months of history asked for, scaled to days: the window spans all of Dates
Months == MaxDate

\* fred.py 137-139, eia.py 145: start_date = date.today() - timedelta(days=months*30)
StartDate == Today - Months + 1

\* "limit": limit (1000 by default, fred.py 45 and 77) and "length": 500
\* (eia.py 92), scaled: one less than the days of the window, so that a series
\* with an observation on every day exceeds it
Limit == MaxDate - 1

\* "sort_order": "desc" / sort by period desc, cut at the limit: the newest
\* points of the provider's series
Capped(series, limit) ==
    SubSeq(series, 1, IF Len(series) < limit THEN Len(series) ELSE limit)

SeqsUpTo(S, n) == UNION {[1 .. k -> S] : k \in 0 .. n}

RawPoints(values) == [date : Dates, value : values]

\* What the network call can end in: a body of observations (units is the "units"
\* field its points carry, the same on every point; total is the number of
\* observations the provider says match the request, which the adapters never
\* read), an HTTP error status, no
\* answer within the timeout, or a body that is not the JSON expected.
Responses(len, values, units) ==
    {[kind |-> "ok", obs |-> s, units |-> u, total |-> Len(s)] :
        s \in SeqsUpTo(RawPoints(values), len), u \in units}
    \cup {[kind |-> k, obs |-> <<>>, units |-> NoUnits, total |-> 0] :
            k \in {"http", "unreachable", "malformed"}}

\* ---- adapters ---------------------------------------------------------------
Failure(msg) == [success |-> FALSE, data |-> <<>>, error |-> msg, count |-> 0]

\* mutant: the count is the limit asked for, not the length of the list
SuccessLimit(observations) ==
    [success |-> TRUE, data |-> observations, error |-> None, count |-> Limit]

Success(observations) ==
    [success |-> TRUE, data |-> observations, error |-> None,
     count |-> Len(observations)]

\* mutant: the missing marker "." is not told apart from a value
FredKeptDot(v) == Truthy(v)

\* fred.py 89-98: the points kept, in order
FredKept(v) == Truthy(v) /\ v # Str(".")

RECURSIVE FredObservations(_)
FredObservations(obs) ==
    IF obs = <<>> THEN <<>>
    ELSE IF FredKept(Head(obs).value)
         THEN <<[date |-> Head(obs).date, value |-> Float(Head(obs).value),
                 unit |-> NoUnits]>> \o FredObservations(Tail(obs))
         ELSE FredObservations(Tail(obs))

\* eia.py 105-114: the points kept, in order
EiaKept(v) == v # Null

RECURSIVE EiaObservations(_, _)
EiaObservations(obs, units) ==
    IF obs = <<>> THEN <<>>
    ELSE IF EiaKept(Head(obs).value)
         THEN <<[date |-> Head(obs).date, value |-> Float(Head(obs).value),
                 unit |-> IF units = NoUnits THEN "thousand barrels"
                          ELSE units]>> \o EiaObservations(Tail(obs), units)
         ELSE EiaObservations(Tail(obs), units)

\* float() raises ValueError on a kept point: the except clause around the
\* whole request catches it.
Raises(source, obs) ==
    \E k \in 1 .. Len(obs) :
        /\ IF source = "FRED" THEN FredKept(obs[k].value) ELSE EiaKept(obs[k].value)
        /\ ~IsFloat(obs[k].value)

\* fetch_series / fetch_distillate_stocks after the response arrived
ParseResponse(source, resp) ==
    CASE resp.kind = "http" -> Failure("HTTP 500")
      [] resp.kind = "unreachable" -> Failure("timed out")
      [] resp.kind = "malformed" -> Failure("malformed response")
      [] OTHER ->
           IF Raises(source, resp.obs)
           THEN Failure("could not convert string to float")
           ELSE Success(IF source = "FRED" THEN FredObservations(resp.obs)
                        ELSE EiaObservations(resp.obs, resp.units))

NoKeyError(source) ==
    IF source = "FRED" THEN "No FRED API key configured"
    ELSE "No EIA API key configured"

\* ---- tables -----------------------------------------------------------------
PriceKey(r) == <<r.source, r.series_id, r.date>>

InventoryKey(r) == <<r.source, r.region, r.product, r.date>>

\* id INTEGER PRIMARY KEY: SQLite gives a new row the largest id plus one
NextId(tbl) ==
    IF tbl = <<>> THEN 1
    ELSE 1 + CHOOSE m \in {tbl[k].id : k \in 1 .. Len(tbl)} :
                 \A k \in 1 .. Len(tbl) : tbl[k].id <= m

NewPrice(tbl, series_id, obs, now) ==
    [id |-> NextId(tbl), source |-> "FRED", series_id |-> series_id,
     date |-> obs.date, value |-> obs.value, unit |-> SeriesUnit(series_id),
     fetched_at |-> now]

\* mutant: a plain INSERT, as if the table had no unique constraint to conflict on
InsertPrice(tbl, series_id, obs, now) ==
    Append(tbl, NewPrice(tbl, series_id, obs, now))

\* mutant: INSERT OR REPLACE, which deletes the conflicting row and inserts anew
ReplacePrice(tbl, series_id, obs, now) ==
    LET Other(r) == PriceKey(r) # <<"FRED", series_id, obs.date>> IN
    Append(SelectSeq(tbl, Other), NewPrice(tbl, series_id, obs, now))

\* mutant: ON CONFLICT DO NOTHING, the stored row wins over the new observation
IgnorePrice(tbl, series_id, obs, now) ==
    IF \E k \in 1 .. Len(tbl) : PriceKey(tbl[k]) = <<"FRED", series_id, obs.date>>
    THEN tbl
    ELSE Append(tbl, NewPrice(tbl, series_id, obs, now))

\* mutant: the conflict target leaves the series out: ON CONFLICT (source, date)
UpsertPriceAnySeries(tbl, series_id, obs, now) ==
    IF \E k \in 1 .. Len(tbl) : tbl[k].date = obs.date
    THEN [k \in 1 .. Len(tbl) |->
            IF tbl[k].date = obs.date
            THEN [tbl[k] EXCEPT !.value = obs.value, !.fetched_at = now]
            ELSE tbl[k]]
    ELSE Append(tbl, NewPrice(tbl, series_id, obs, now))

\* mutant: the statement deletes the stored rows of the series, then inserts
RefreshPrice(tbl, series_id, obs, now) ==
    LET Other(r) == r.series_id # series_id IN
    Append(SelectSeq(tbl, Other), NewPrice(tbl, series_id, obs, now))

\* INSERT ... ON CONFLICT (source, series_id, date) DO UPDATE SET value, fetched_at
UpsertPrice(tbl, series_id, obs, now) ==
    LET key == <<"FRED", series_id, obs.date>> IN
    IF \E k \in 1 .. Len(tbl) : PriceKey(tbl[k]) = key
    THEN [k \in 1 .. Len(tbl) |->
            IF PriceKey(tbl[k]) = key
            THEN [tbl[k] EXCEPT !.value = obs.value, !.fetched_at = now]
            ELSE tbl[k]]
    ELSE Append(tbl, NewPrice(tbl, series_id, obs, now))

\* INSERT ... ON CONFLICT (source, region, product, date) DO UPDATE SET value, fetched_at
UpsertInventory(tbl, region, obs, now) ==
    LET key == <<"EIA", region, "distillate", obs.date>> IN
    IF \E k \in 1 .. Len(tbl) : InventoryKey(tbl[k]) = key
    THEN [k \in 1 .. Len(tbl) |->
            IF InventoryKey(tbl[k]) = key
            THEN [tbl[k] EXCEPT !.value = obs.value, !.fetched_at = now]
            ELSE tbl[k]]
    ELSE Append(tbl, [id |-> NextId(tbl), source |-> "EIA", region |-> region,
                      product |-> "distillate", date |-> obs.date,
                      value |-> obs.value, unit |-> "thousand_barrels",
                      fetched_at |-> now])

\* the statement the loop executes for one observation, on both tables
StoreObs(tables, source, sel, obs, now) ==
    IF source = "FRED"
    THEN [tables EXCEPT !.prices = UpsertPrice(@, sel, obs, now)]
    ELSE [tables EXCEPT
            !.inventories = UpsertInventory(@, AreaRegion(sel), obs, now)]

\* fred.py 168-185, eia.py 173-189: the loop over result["data"], no statement raising
RECURSIVE StoreAll(_, _, _, _, _)
StoreAll(tables, source, sel, data, now) ==
    IF data = <<>> THEN tables
    ELSE StoreAll(StoreObs(tables, source, sel, Head(data), now), source, sel,
                  Tail(data), now + 1)

\* FetchLog(source=..., endpoint=..., series_id=..., status="in_progress")
NewFetchLog(id, source, sel, now) ==
    [id |-> id, source |-> source,
     endpoint |-> IF source = "FRED" THEN "/series/observations"
                  ELSE "/petroleum/sum/sndw/data",
     series_id |-> IF source = "FRED" THEN sel
                   ELSE "distillate_" \o AreaRegion(sel),
     started_at |-> now, completed_at |-> NullTime, status |-> "in_progress",
     records_fetched |-> 0, error_message |-> None]

\* ---- state -------------------------------------------------------------------
VARIABLES
    prices,         \* committed rows of table prices, in insertion order
    inventories,    \* committed rows of table inventories
    fetch_log,      \* committed rows of table fetch_log
    txPrices,       \* prices as the open write transaction sees it
    txInventories,  \* inventories as the open write transaction sees it
    writer,         \* the process whose session holds uncommitted writes, or NoWriter
    clock,          \* the next reading of datetime.now()
    api_key,        \* per source: is the provider key in the environment
    inv,            \* per process: the frame of its fetch_and_store_* call
    fan             \* the fetch_all_* loop: its position and its results

vars == <<prices, inventories, fetch_log, txPrices, txInventories, writer,
          clock, api_key, inv, fan>>

FanProc == 0
NoWriter == -1
Procs == {FanProc} \cup Inv

Sources == {"FRED", "EIA"}

Registry(source) == IF source = "FRED" THEN FRED_SERIES ELSE EIA_AREAS

NoResult == [success |-> FALSE, data |-> <<>>, error |-> None, count |-> 0]
NoResponse == [kind |-> "none", obs |-> <<>>, units |-> NoUnits, total |-> 0]
NoSummary == [keys |-> {}, success |-> FALSE, selector |-> None,
              records_fetched |-> 0, date_range |-> <<>>, error |-> None]

\* the counts one fetch_all_* list is summed up to
NoPart == [fetched |-> 0, of |-> 0, records |-> 0]

\* the answer of a fetch-all route before it is made; keys are the keys of the
\* JSON object, the other fields hold what the keys in it carry
NoAnswer == [keys |-> {}, part |-> NoPart, results |-> <<>>,
             fred |-> NoPart, eia |-> NoPart, total_records |-> 0]

IdleFrame ==
    [pc |-> "idle", source |-> None, sel |-> None, log |-> 0, calls |-> 0,
     response |-> NoResponse, result |-> NoResult, idx |-> 1,
     records_inserted |-> 0, ret |-> NoSummary]

Init ==
    /\ prices = <<>>
    /\ inventories = <<>>
    /\ fetch_log = <<>>
    /\ txPrices = <<>>
    /\ txInventories = <<>>
    /\ writer = NoWriter
    /\ clock = 1
    /\ api_key \in [Sources -> BOOLEAN]
    /\ inv = [p \in Procs |-> IdleFrame]
    /\ fan = [pc |-> "idle", source |-> None, k |-> 1, results |-> <<>>,
              caller |-> None, fred |-> <<>>, response |-> NoAnswer]

\* ---- one invocation of fetch_and_store_series / fetch_and_store_stocks -------
\* fred.py 137-149, eia.py 145-159: db.add(fetch_log); db.commit()
Begin(p, source, sel) ==
    /\ writer = NoWriter
    /\ fetch_log' = Append(fetch_log,
                           NewFetchLog(Len(fetch_log) + 1, source, sel, clock))
    /\ inv' = [inv EXCEPT ![p] = [IdleFrame EXCEPT !.pc = "begun",
                                     !.source = source, !.sel = sel,
                                     !.log = Len(fetch_log) + 1]]
    /\ clock' = clock + 1
    /\ UNCHANGED <<prices, inventories, txPrices, txInventories, writer, api_key>>

\* mutant: the request is sent before the key is looked at
RequestUnchecked(p) ==
    /\ inv[p].pc = "begun"
    /\ inv' = [inv EXCEPT ![p] = [@ EXCEPT !.pc = "awaiting", !.calls = @ + 1]]
    /\ UNCHANGED <<prices, inventories, fetch_log, txPrices, txInventories,
                   writer, clock, api_key, fan>>

\* fred.py 59-83, eia.py 69-97: the key check, then the request is sent and the
\* coroutine awaits the response
Request(p) ==
    /\ inv[p].pc = "begun"
    /\ inv' = [inv EXCEPT ![p] =
                 IF api_key[inv[p].source]
                 THEN [@ EXCEPT !.pc = "awaiting", !.calls = @ + 1]
                 ELSE [@ EXCEPT !.pc = "fetched",
                                !.result = Failure(NoKeyError(inv[p].source))]]
    /\ UNCHANGED <<prices, inventories, fetch_log, txPrices, txInventories,
                   writer, clock, api_key, fan>>

\* mutant: a call that failed is sent once more before the failure is handled
ResponseRetry(p, resp) ==
    /\ inv[p].pc = "awaiting"
    /\ inv' = [inv EXCEPT ![p] =
                 IF resp.kind \in {"http", "unreachable"} /\ inv[p].calls < 2
                 THEN [@ EXCEPT !.pc = "begun"]
                 ELSE [@ EXCEPT !.pc = "fetched", !.response = resp,
                                !.result = ParseResponse(inv[p].source, resp)]]
    /\ UNCHANGED <<prices, inventories, fetch_log, txPrices, txInventories,
                   writer, clock, api_key, fan>>

\* fred.py 83-110, eia.py 97-126: the response (or the exception) arrives and is parsed
Response(p, resp) ==
    /\ inv[p].pc = "awaiting"
    /\ inv' = [inv EXCEPT ![p] = [@ EXCEPT !.pc = "fetched", !.response = resp,
                                    !.result = ParseResponse(inv[p].source, resp)]]
    /\ UNCHANGED <<prices, inventories, fetch_log, txPrices, txInventories,
                   writer, clock, api_key, fan>>

\* mutant: the UPDATE selects the entries by series_id, not by id
SetLogBySeries(log, id, status, records, message, now) ==
    [k \in 1 .. Len(log) |->
        IF log[k].source = log[id].source /\ log[k].series_id = log[id].series_id
        THEN [log[k] EXCEPT !.status = status, !.records_fetched = records,
                            !.error_message = message, !.completed_at = now]
        ELSE log[k]]

\* mutant: the UPDATE goes to the newest entry of the log, not to the entry the
\* invocation created
SetLogLatest(log, id, status, records, message, now) ==
    [log EXCEPT ![Len(log)] = [@ EXCEPT !.status = status,
                                        !.records_fetched = records,
                                        !.error_message = message,
                                        !.completed_at = now]]

\* fetch_log.status = ...; fetch_log.completed_at = datetime.now(); db.commit()
SetLog(log, id, status, records, message, now) ==
    [log EXCEPT ![id] = [@ EXCEPT !.status = status, !.records_fetched = records,
                                   !.error_message = message,
                                   !.completed_at = now]]

\* mutant: the failure result is returned and the entry never updated
ReturnError(p) ==
    /\ inv[p].pc = "fetched"
    /\ ~inv[p].result.success
    /\ inv' = [inv EXCEPT ![p] = [@ EXCEPT !.pc = "returned",
                 !.ret = [keys |-> {"success", "data", "error"},
                          success |-> FALSE, selector |-> None,
                          records_fetched |-> 0,
                          date_range |-> <<>>,
                          error |-> inv[p].result.error]]]
    /\ UNCHANGED <<prices, inventories, fetch_log, txPrices, txInventories,
                   writer, clock, api_key, fan>>

\* mutant: the entry is completed as an error without the adapter's message
CompleteErrorSilent(p) ==
    /\ inv[p].pc = "fetched"
    /\ ~inv[p].result.success
    /\ writer = NoWriter
    /\ fetch_log' = SetLog(fetch_log, inv[p].log, "error",
                           fetch_log[inv[p].log].records_fetched,
                           fetch_log[inv[p].log].error_message, clock)
    /\ inv' = [inv EXCEPT ![p] = [@ EXCEPT !.pc = "returned",
                 !.ret = [keys |-> {"success", "data", "error"},
                          success |-> FALSE, selector |-> None,
                          records_fetched |-> 0,
                          date_range |-> <<>>,
                          error |-> inv[p].result.error]]]
    /\ clock' = clock + 1
    /\ UNCHANGED <<prices, inventories, txPrices, txInventories, writer, api_key,
                   fan>>

\* mutant: the error path sets status and message but not completed_at
CompleteErrorUnstamped(p) ==
    /\ inv[p].pc = "fetched"
    /\ ~inv[p].result.success
    /\ writer = NoWriter
    /\ fetch_log' = SetLog(fetch_log, inv[p].log, "error",
                           fetch_log[inv[p].log].records_fetched,
                           inv[p].result.error, NullTime)
    /\ inv' = [inv EXCEPT ![p] = [@ EXCEPT !.pc = "returned",
                 !.ret = [keys |-> {"success", "data", "error"},
                          success |-> FALSE, selector |-> None,
                          records_fetched |-> 0,
                          date_range |-> <<>>,
                          error |-> inv[p].result.error]]]
    /\ clock' = clock + 1
    /\ UNCHANGED <<prices, inventories, txPrices, txInventories, writer, api_key,
                   fan>>

\* fred.py 154-160, eia.py 164-169
CompleteError(p) ==
    /\ inv[p].pc = "fetched"
    /\ ~inv[p].result.success
    /\ writer = NoWriter
    /\ fetch_log' = SetLog(fetch_log, inv[p].log, "error",
                           fetch_log[inv[p].log].records_fetched,
                           inv[p].result.error, clock)
    /\ inv' = [inv EXCEPT ![p] = [@ EXCEPT !.pc = "returned",
                 !.ret = [keys |-> {"success", "data", "error"},
                          success |-> FALSE, selector |-> None,
                          records_fetched |-> 0,
                          date_range |-> <<>>,
                          error |-> inv[p].result.error]]]
    /\ clock' = clock + 1
    /\ UNCHANGED <<prices, inventories, txPrices, txInventories, writer, api_key,
                   fan>>

\* the region of the frame's area code (eia.py 148-149)
Region(p) == AreaRegion(inv[p].sel)

\* mutant: the counter counts the rows inserted, not the statements executed
StoreRowInserts(p, raised) ==
    /\ inv[p].pc = "fetched"
    /\ inv[p].result.success
    /\ inv[p].idx <= Len(inv[p].result.data)
    /\ writer \in {NoWriter, p}
    /\ LET obs == inv[p].result.data[inv[p].idx]
           t == StoreObs([prices |-> txPrices, inventories |-> txInventories],
                         inv[p].source, inv[p].sel, obs, clock)
           grown == IF Len(t.prices) + Len(t.inventories)
                        > Len(txPrices) + Len(txInventories) THEN 1 ELSE 0
       IN
       /\ ~raised
       /\ inv' = [inv EXCEPT ![p] = [@ EXCEPT !.idx = @ + 1,
                                       !.records_inserted = @ + grown]]
       /\ writer' = p
       /\ txPrices' = t.prices
       /\ txInventories' = t.inventories
    /\ clock' = clock + 1
    /\ UNCHANGED <<prices, inventories, fetch_log, api_key, fan>>

\* mutant: an exception of db.execute is not caught and leaves the function
StoreRowAbort(p, raised) ==
    /\ inv[p].pc = "fetched"
    /\ inv[p].result.success
    /\ inv[p].idx <= Len(inv[p].result.data)
    /\ writer \in {NoWriter, p}
    /\ LET obs == inv[p].result.data[inv[p].idx]
           t == StoreObs([prices |-> txPrices, inventories |-> txInventories],
                         inv[p].source, inv[p].sel, obs, clock)
       IN
       IF raised
       THEN /\ inv' = [inv EXCEPT ![p] = [@ EXCEPT !.pc = "raised"]]
            /\ txPrices' = prices
            /\ txInventories' = inventories
            /\ writer' = NoWriter
       ELSE /\ inv' = [inv EXCEPT ![p] = [@ EXCEPT !.idx = @ + 1,
                                            !.records_inserted = @ + 1]]
            /\ writer' = p
            /\ txPrices' = t.prices
            /\ txInventories' = t.inventories
    /\ clock' = clock + 1
    /\ UNCHANGED <<prices, inventories, fetch_log, api_key, fan>>

\* fred.py 168-185, eia.py 173-189: one turn of the loop; raised says whether
\* db.execute raised, which the loop's except clause swallows
StoreRow(p, raised) ==
    /\ inv[p].pc = "fetched"
    /\ inv[p].result.success
    /\ inv[p].idx <= Len(inv[p].result.data)
    /\ writer \in {NoWriter, p}
    /\ LET obs == inv[p].result.data[inv[p].idx]
           t == StoreObs([prices |-> txPrices, inventories |-> txInventories],
                         inv[p].source, inv[p].sel, obs, clock)
       IN
       IF raised
       THEN /\ inv' = [inv EXCEPT ![p] = [@ EXCEPT !.idx = @ + 1]]
            /\ UNCHANGED <<txPrices, txInventories, writer>>
       ELSE /\ inv' = [inv EXCEPT ![p] = [@ EXCEPT !.idx = @ + 1,
                                            !.records_inserted = @ + 1]]
            /\ writer' = p
            /\ txPrices' = t.prices
            /\ txInventories' = t.inventories
    /\ clock' = clock + 1
    /\ UNCHANGED <<prices, inventories, fetch_log, api_key, fan>>

\* fred.py 187, eia.py 191: db.commit() of the rows; when it raises the session
\* rolls back and the exception leaves fetch_and_store_*
CommitData(p, raised) ==
    /\ inv[p].pc = "fetched"
    /\ inv[p].result.success
    /\ inv[p].idx > Len(inv[p].result.data)
    /\ writer \in {NoWriter, p}
    /\ raised => writer = p
    /\ IF raised
       THEN /\ txPrices' = prices
            /\ txInventories' = inventories
            /\ inv' = [inv EXCEPT ![p] = [@ EXCEPT !.pc = "raised"]]
            /\ UNCHANGED <<prices, inventories>>
       ELSE /\ prices' = txPrices
            /\ inventories' = txInventories
            /\ inv' = [inv EXCEPT ![p] = [@ EXCEPT !.pc = "stored"]]
            /\ UNCHANGED <<txPrices, txInventories>>
    /\ writer' = NoWriter
    /\ UNCHANGED <<fetch_log, clock, api_key, fan>>

\* mutant: the entry is set to success before the rows are committed
CompleteUncommitted(p) ==
    /\ inv[p].pc = "fetched"
    /\ inv[p].result.success
    /\ inv[p].idx > Len(inv[p].result.data)
    /\ fetch_log' = SetLog(fetch_log, inv[p].log, "success",
                           inv[p].records_inserted,
                           fetch_log[inv[p].log].error_message, clock)
    /\ inv' = [inv EXCEPT ![p] = [@ EXCEPT !.pc = "completed"]]
    /\ clock' = clock + 1
    /\ UNCHANGED <<prices, inventories, txPrices, txInventories, writer, api_key,
                   fan>>

\* mutant: the entry is completed and the summary returned with the rows of the
\* loop still to be committed
CompleteThenCommit(p) ==
    /\ inv[p].pc = "fetched"
    /\ inv[p].result.success
    /\ inv[p].idx > Len(inv[p].result.data)
    /\ fetch_log' = SetLog(fetch_log, inv[p].log, "success",
                           inv[p].records_inserted,
                           fetch_log[inv[p].log].error_message, clock)
    /\ inv' = [inv EXCEPT ![p] = [@ EXCEPT !.pc = "stored",
                 !.ret = [NoSummary EXCEPT !.success = TRUE,
                            !.records_fetched = inv[p].records_inserted]]]
    /\ clock' = clock + 1
    /\ UNCHANGED <<prices, inventories, txPrices, txInventories, writer, api_key,
                   fan>>

\* fred.py 189-200, eia.py 193-205
CompleteSuccess(p) ==
    /\ inv[p].pc = "stored"
    /\ writer = NoWriter
    /\ fetch_log' = SetLog(fetch_log, inv[p].log, "success",
                           inv[p].records_inserted,
                           fetch_log[inv[p].log].error_message, clock)
    /\ inv' = [inv EXCEPT ![p] = [@ EXCEPT !.pc = "returned",
                 !.ret = [keys |-> {"success", "records_fetched", "date_range",
                                    IF inv[p].source = "FRED" THEN "series_id"
                                    ELSE "region"}
                                   \cup (IF inv[p].source = "FRED" THEN {}
                                         ELSE {"area_name"}),
                          success |-> TRUE,
                          selector |-> IF inv[p].source = "FRED" THEN inv[p].sel
                                       ELSE Region(p),
                          records_fetched |-> inv[p].records_inserted,
                          date_range |-> <<StartDate, Today>>,
                          error |-> None]]]
    /\ clock' = clock + 1
    /\ UNCHANGED <<prices, inventories, txPrices, txInventories, writer, api_key,
                   fan>>

\* the positions of an invocation that has begun and not ended
InFlight == {"begun", "awaiting", "fetched", "stored"}

\* The server process dies: every invocation in flight ends where it is and what
\* its session wrote and had not committed is gone (database.py 31:
\* autocommit=False; SQLite rolls the open transaction back).
Crash ==
    /\ \E p \in Procs : inv[p].pc \in InFlight
    /\ inv' = [p \in Procs |->
                 IF inv[p].pc \in InFlight THEN [inv[p] EXCEPT !.pc = "crashed"]
                 ELSE inv[p]]
    /\ txPrices' = prices
    /\ txInventories' = inventories
    /\ writer' = NoWriter
    /\ UNCHANGED <<prices, inventories, fetch_log, clock, api_key, fan>>

\* mutant: the route hands any selector to fetch_and_store_*
RouteUnvalidated(p, source, sel) ==
    /\ p \in Inv
    /\ inv[p].pc = "idle"
    /\ Begin(p, source, sel)
    /\ UNCHANGED fan

\* ---- callers -------------------------------------------------------------------
\* routes/fetch.py 20-42 and 74-96: POST /fetch/fred/{series_id}, /fetch/eia/{area_code}
Route(p, source, sel) ==
    /\ p \in Inv
    /\ inv[p].pc = "idle"
    /\ IF sel \in Range(Registry(source))
       THEN Begin(p, source, sel) /\ UNCHANGED fan
       ELSE /\ inv' = [inv EXCEPT ![p] = [@ EXCEPT !.pc = "rejected",
                         !.source = source, !.sel = sel,
                         !.ret = [keys |-> {"success", "error"},
                                  success |-> FALSE, selector |-> None,
                                  records_fetched |-> 0,
                                  date_range |-> <<>>,
                                  error |-> "Unknown selector"]]]
            /\ UNCHANGED <<prices, inventories, fetch_log, txPrices,
                           txInventories, writer, clock, api_key, fan>>

\* fred.py 203-228, eia.py 208-232: fetch_all_series / fetch_all_stocks is called
FanStart(source) ==
    /\ fan.pc = "idle"
    /\ fan' = [fan EXCEPT !.pc = "running", !.source = source]
    /\ UNCHANGED <<prices, inventories, fetch_log, txPrices, txInventories,
                   writer, clock, api_key, inv>>

\* the loop calls fetch_and_store_* for the next key of the registry
FanCall ==
    /\ fan.pc = "running"
    /\ inv[FanProc].pc = "idle"
    /\ fan.k <= Len(Registry(fan.source))
    /\ Begin(FanProc, fan.source, Registry(fan.source)[fan.k])
    /\ UNCHANGED fan

\* results.append(result)
FanCollect ==
    /\ fan.pc = "running"
    /\ inv[FanProc].pc = "returned"
    /\ fan' = [fan EXCEPT !.k = @ + 1, !.results = Append(@, inv[FanProc].ret)]
    /\ inv' = [inv EXCEPT ![FanProc] = IdleFrame]
    /\ UNCHANGED <<prices, inventories, fetch_log, txPrices, txInventories,
                   writer, clock, api_key>>

\* an exception leaving fetch_and_store_* leaves the loop too: nothing catches it
FanRaise ==
    /\ fan.pc = "running"
    /\ inv[FanProc].pc = "raised"
    /\ fan' = [fan EXCEPT !.pc = "raised"]
    /\ UNCHANGED <<prices, inventories, fetch_log, txPrices, txInventories,
                   writer, clock, api_key, inv>>

\* return results
FanReturn ==
    /\ fan.pc = "running"
    /\ inv[FanProc].pc = "idle"
    /\ fan.k > Len(Registry(fan.source))
    /\ fan' = [fan EXCEPT !.pc = "done"]
    /\ UNCHANGED <<prices, inventories, fetch_log, txPrices, txInventories,
                   writer, clock, api_key, inv>>

\* routes/fetch.py 20, 45, 74, 99, 130: the POST routes of the router, as path
\* segments after the prefix /api/fetch, in the order of their declaration
Routes ==
    <<[path |-> <<"fred", "{series_id}">>, handler |-> "fetch_fred_series"],
      [path |-> <<"fred", "all">>, handler |-> "fetch_all_fred"],
      [path |-> <<"eia", "{area_code}">>, handler |-> "fetch_eia_area"],
      [path |-> <<"eia", "all">>, handler |-> "fetch_all_eia"],
      [path |-> <<"all">>, handler |-> "fetch_everything"]>>

IsParam(segment) == segment \in {"{series_id}", "{area_code}"}

\* a path parameter takes any one segment
Matches(pattern, path) ==
    /\ Len(pattern) = Len(path)
    /\ \A i \in 1 .. Len(pattern) : IsParam(pattern[i]) \/ pattern[i] = path[i]

\* the router answers with the first route, in declaration order, that matches
Handler(path) ==
    LET hits == {k \in 1 .. Len(Routes) : Matches(Routes[k].path, path)}
    IN IF hits = {} THEN None
       ELSE Routes[CHOOSE k \in hits : \A j \in hits : k <= j].handler

\* sum(1 for r in results if r.get("success"))
CountSuccess(results) ==
    Cardinality({k \in 1 .. Len(results) : results[k].success})

\* sum(r.get("records_fetched", 0) for r in results if r.get("success"))
RECURSIVE SumRecords(_)
SumRecords(results) ==
    IF results = <<>> THEN 0
    ELSE (IF Head(results).success THEN Head(results).records_fetched ELSE 0)
         + SumRecords(Tail(results))

Part(results) ==
    [fetched |-> CountSuccess(results), of |-> Len(results),
     records |-> SumRecords(results)]

\* routes/fetch.py 64-71, 120-127: what fetch_all_fred / fetch_all_eia return
AllSummary(results) ==
    [NoAnswer EXCEPT !.keys = {"message", "total_records", "results"},
                     !.part = Part(results),
                     !.total_records = SumRecords(results),
                     !.results = results]

\* routes/fetch.py 154-171: what fetch_everything returns
EverythingSummary(fred_results, eia_results) ==
    [NoAnswer EXCEPT !.keys = {"message", "fred", "eia", "total_records"},
                     !.fred = Part(fred_results),
                     !.eia = Part(eia_results),
                     !.total_records = SumRecords(fred_results)
                                       + SumRecords(eia_results)]

\* a POST request for path arrives: the handler of the first matching route runs
Post(path) ==
    /\ fan.pc = "idle"
    /\ inv[1].pc = "idle"
    /\ LET h == Handler(path) IN
       CASE h = "fetch_fred_series" -> Route(1, "FRED", path[2])
         [] h = "fetch_eia_area" -> Route(1, "EIA", path[2])
         [] h \in {"fetch_all_fred", "fetch_everything"} ->
              /\ fan' = [fan EXCEPT !.pc = "running", !.source = "FRED",
                                    !.caller = h]
              /\ UNCHANGED <<prices, inventories, fetch_log, txPrices,
                             txInventories, writer, clock, api_key, inv>>
         [] h = "fetch_all_eia" ->
              /\ fan' = [fan EXCEPT !.pc = "running", !.source = "EIA",
                                    !.caller = h]
              /\ UNCHANGED <<prices, inventories, fetch_log, txPrices,
                             txInventories, writer, clock, api_key, inv>>
         [] OTHER -> FALSE

\* routes/fetch.py 147-151: fetch_everything goes on from fetch_all_series to
\* fetch_all_stocks
EverythingNext ==
    /\ fan.caller = "fetch_everything"
    /\ fan.pc = "done"
    /\ fan.source = "FRED"
    /\ fan' = [fan EXCEPT !.pc = "running", !.source = "EIA", !.k = 1,
                          !.fred = fan.results, !.results = <<>>]
    /\ UNCHANGED <<prices, inventories, fetch_log, txPrices, txInventories,
                   writer, clock, api_key, inv>>

\* the fetch-all handler sums its lists up and returns
Respond ==
    /\ fan.caller # None
    /\ fan.pc = "done"
    /\ fan.caller = "fetch_everything" => fan.source = "EIA"
    /\ fan' = [fan EXCEPT !.pc = "answered",
                          !.response =
                              IF fan.caller = "fetch_everything"
                              THEN EverythingSummary(fan.fred, fan.results)
                              ELSE AllSummary(fan.results)]
    /\ UNCHANGED <<prices, inventories, fetch_log, txPrices, txInventories,
                   writer, clock, api_key, inv>>

\* ---- inputs ----------------------------------------------------------------------
\* selectors callers ask the routes for
SeriesInputs == {"DCOILBRENTEU", "DDFUELNYH", "BOGUS"}
AreaInputs == {"NUS", "BOGUS"}

SelectorInputs(source) == IF source = "FRED" THEN SeriesInputs ELSE AreaInputs

PlainValues == {Str("70.0"), Str("71.5")}

\* every encoding of a value the adapters tell apart
AllValues == PlainValues \cup {Null, Str("."), Str("0"), Num(0), Str("abc")}

UnitsOf(source) == IF source = "FRED" THEN {NoUnits} ELSE {NoUnits, "MBBL"}

RouteResponses == Responses(MaxLen, PlainValues, {NoUnits})

FredResponses == Responses(MaxLen, AllValues, UnitsOf("FRED"))
EiaResponses == Responses(MaxLen, AllValues, UnitsOf("EIA"))

\* the series upstream holds inside the requested window: at most one observation
\* a day, newest first
UpstreamSeries ==
    {s \in SeqsUpTo(RawPoints(PlainValues), MaxDate) :
        /\ \A k \in 1 .. Len(s) : StartDate <= s[k].date /\ s[k].date <= Today
        /\ \A j, k \in 1 .. Len(s) : j < k => s[j].date > s[k].date}

\* the provider answers with the newest Limit observations of the series and
\* says how many match; or the call fails
CapResponses ==
    {[kind |-> "ok", obs |-> Capped(s, Limit), units |-> NoUnits,
      total |-> Len(s)] : s \in UpstreamSeries}
    \cup Responses(0, PlainValues, {NoUnits})

FanResponses ==
    {r \in Responses(MaxFanLen, {Str("71.5")}, {NoUnits}) :
        /\ r.kind = "http" \/ (r.kind = "ok" /\ r.obs # <<>>)
        /\ \A k \in 1 .. Len(r.obs) : r.obs[k].date = 1}

\* the paths of the fetch-all endpoints
FetchAllPaths == {<<"fred", "all">>, <<"eia", "all">>, <<"all">>}

\* the response with a duplicated date: (day 1, 70.0), (day 2, 71.5), (day 2, 71.5)
ScenarioDuplicate ==
    <<[date |-> 1, value |-> Str("70.0")], [date |-> 2, value |-> Str("71.5")],
      [date |-> 2, value |-> Str("71.5")]>>

\* a response of ScenLen points on consecutive days whose k-th value is marker
ScenarioMissing(marker, k) ==
    [j \in 1 .. ScenLen |->
        [date |-> j,
         value |-> IF j = k THEN marker
                   ELSE IF j % 2 = 1 THEN Str("70.0") ELSE Str("71.5")]]

ScenarioResponses ==
    {[kind |-> "ok", obs |-> o, units |-> NoUnits, total |-> Len(o)] :
        o \in {ScenarioDuplicate}
               \cup {ScenarioMissing(m, k) : m \in {Str("."), Null}, k \in 1 .. ScenLen}}

\* ---- specifications ----------------------------------------------------------------
\* the steps of process p's invocation; R(source) is what upstream may answer and
\* F says whether a statement or a commit of the store may raise
Step(p, R(_), F) ==
    \/ Request(p)
    \/ /\ inv[p].pc = "awaiting"
       /\ \E resp \in R(inv[p].source) : Response(p, resp)
    \/ CompleteError(p)
    \/ \E raised \in F : StoreRow(p, raised)
    \/ \E raised \in F : CommitData(p, raised)
    \/ CompleteSuccess(p)

RouteR(source) == RouteResponses
OneR(source) == IF source = "FRED" THEN FredResponses ELSE EiaResponses
FanR(source) == FanResponses

\* Spec: concurrent requests to the single-selector routes, the store working.
\* Processes are started in the order of their names.
Next ==
    \/ \E p \in Inv, source \in Sources :
          \E sel \in SelectorInputs(source) :
             /\ p > 1 => inv[p - 1].pc # "idle"
             /\ Route(p, source, sel)
    \/ \E p \in Inv : Step(p, RouteR, {FALSE})

Spec == Init /\ [][Next]_vars

\* SpecOne: one request to a single-selector route, upstream answering anything,
\* statements and commits of the store failing or not.
NextOne ==
    \/ \E source \in Sources :
          \E sel \in SelectorInputs(source) : Route(1, source, sel)
    \/ Step(1, OneR, BOOLEAN)

SpecOne == Init /\ [][NextOne]_vars

\* SpecFan: one call of fetch_all_series or fetch_all_stocks, statements and
\* commits of the store failing or not.
NextFan ==
    \/ \E source \in Sources : FanStart(source)
    \/ FanCall
    \/ FanCollect
    \/ FanRaise
    \/ FanReturn
    \/ Step(FanProc, FanR, BOOLEAN)

SpecFan == Init /\ [][NextFan]_vars

ScenR(source) == ScenarioResponses

\* SpecScen: one request to a single-selector route, upstream answering one of the
\* scenario responses, the store working.
NextScen ==
    \/ \E source \in Sources :
          \E sel \in SelectorInputs(source) : Route(1, source, sel)
    \/ Step(1, ScenR, {FALSE})

SpecScen == Init /\ [][NextScen]_vars

AllR(source) == FanResponses

\* SpecAll: one POST request to a fetch-all endpoint, statements and commits of
\* the store failing or not.
NextAll ==
    \/ \E path \in FetchAllPaths : Post(path)
    \/ FanCall
    \/ FanCollect
    \/ FanRaise
    \/ FanReturn
    \/ EverythingNext
    \/ Respond
    \/ Step(FanProc, AllR, BOOLEAN)

SpecAll == Init /\ [][NextAll]_vars

\* SpecCap: one request to a single-selector route over a window of which
\* upstream holds a series; the response is cut at the limit of the request.
CapR(source) == CapResponses

NextCap ==
    \/ \E source \in Sources :
          \E sel \in SelectorInputs(source) : Route(1, source, sel)
    \/ Step(1, CapR, BOOLEAN)

SpecCap == Init /\ [][NextCap]_vars

\* SpecCrash: SpecOne with the server process dying at any step.
NextCrash ==
    \/ \E source \in Sources :
          \E sel \in SelectorInputs(source) : Route(1, source, sel)
    \/ Step(1, OneR, BOOLEAN)
    \/ Crash

SpecCrash == Init /\ [][NextCrash]_vars

\* SpecLive: SpecOne with the invocation going on whenever it can: the event loop
\* resumes the coroutine, the network call ends within its timeout of 30 s
\* (fred.py 83, eia.py 97) and the statements of the store end.
SpecLive == Init /\ [][NextOne]_vars /\ WF_vars(Step(1, OneR, BOOLEAN))

\* ---- properties ---------------------------------------------------------------------
Tables == [prices |-> prices, inventories |-> inventories]

Unique(tbl, Key(_)) ==
    \A a, b \in 1 .. Len(tbl) : a # b => Key(tbl[a]) # Key(tbl[b])

\* a table without its fetch timestamps
Strip(tbl) == [k \in 1 .. Len(tbl) |-> [tbl[k] EXCEPT !.fetched_at = NullTime]]

StripAll(tables) ==
    [prices |-> Strip(tables.prices), inventories |-> Strip(tables.inventories)]

Terminal == {"success", "error"}

Stored(p) == inv[p].pc = "returned" /\ inv[p].ret.success

Begun(p) == inv[p].pc \notin {"idle", "rejected"}

\* the audit entry process p's invocation created
Entry(p) == fetch_log[inv[p].log]

\* the table process p's pipeline writes, committed and in the open transaction
TableOf(p) == IF inv[p].source = "FRED" THEN prices ELSE inventories
TxTableOf(p) == IF inv[p].source = "FRED" THEN txPrices ELSE txInventories

\* the key process p's pipeline gives an observation
KeyOf(p, obs) ==
    IF inv[p].source = "FRED" THEN <<"FRED", inv[p].sel, obs.date>>
    ELSE <<"EIA", Region(p), "distillate", obs.date>>

RowKey(p, r) == IF inv[p].source = "FRED" THEN PriceKey(r) ELSE InventoryKey(r)

\* the unit an observation carries: the registry's for a price series, the
\* adapter's "unit" field for a stock reading
ObsUnit(p, obs) ==
    IF inv[p].source = "FRED" THEN SeriesUnit(inv[p].sel) ELSE obs.unit

\* C1: in every reachable state no two rows of prices share (source, series_id,
\* date) and no two rows of inventories share (source, region, product, date),
\* committed or inside the open transaction.
C1_KeyUniqueness ==
    /\ Unique(prices, PriceKey) /\ Unique(txPrices, PriceKey)
    /\ Unique(inventories, InventoryKey) /\ Unique(txInventories, InventoryKey)

\* two invocations for one selector have both stored a batch holding the same date
C1_Witness ==
    \E p, q \in Inv :
        /\ p # q /\ Stored(p) /\ Stored(q)
        /\ inv[p].source = inv[q].source /\ inv[p].sel = inv[q].sel
        /\ \E a \in 1 .. Len(inv[p].result.data), b \in 1 .. Len(inv[q].result.data) :
              /\ inv[p].result.data[a].date = inv[q].result.data[b].date
              /\ inv[p].result.data[a].value # inv[q].result.data[b].value

Invocations == Len(fan.results) + Cardinality({p \in Procs : Begun(p)})

C4_GuaranteedCompletion ==
    \A p \in Procs :
        inv[p].pc \in {"returned", "raised"} =>
            /\ Entry(p).status \in Terminal
            /\ Entry(p).completed_at # NullTime
            /\ Entry(p).status = "success" =>
                  Entry(p).records_fetched = inv[p].records_inserted
            /\ Entry(p).status = "error" => Entry(p).error_message # None

\* C5 as claimed: a fan-out that ended holds one result per selector of the
\* registry, and every selector reported successful has its rows in storage.
C5_FanOutIsolation ==
    fan.pc \in {"done", "raised"} =>
        /\ Len(fan.results) = Len(Registry(fan.source))
        /\ \A k \in 1 .. Len(fan.results) :
              fan.results[k].success /\ fan.results[k].records_fetched > 0 =>
                  IF fan.source = "FRED"
                  THEN \E r \in Range(prices) :
                          r.series_id = fan.results[k].selector
                  ELSE \E r \in Range(inventories) :
                          r.region = fan.results[k].selector

\* a point the adapter keeps and float() cannot parse
Malformed(source, v) ==
    /\ IF source = "FRED" THEN FredKept(v) ELSE EiaKept(v)
    /\ ~IsFloat(v)

NumMalformed(p) ==
    Cardinality({k \in 1 .. Len(inv[p].response.obs) :
                    Malformed(inv[p].source, inv[p].response.obs[k].value)})

\* C6 as claimed: a response of N points of which 1 <= M < N are malformed (the
\* others numeric) does not fail the invocation, and N - M is what the summary
\* and the audit entry report.
C6_PartialBatchResilience ==
    \A p \in Procs :
        LET N == Len(inv[p].response.obs)
            M == NumMalformed(p)
        IN (/\ inv[p].pc \in {"fetched", "stored", "returned"}
            /\ inv[p].response.kind = "ok"
            /\ 1 <= M /\ M < N
            /\ \A k \in 1 .. N : \/ Malformed(inv[p].source, inv[p].response.obs[k].value)
                                 \/ inv[p].response.obs[k].value \in PlainValues)
           => /\ inv[p].result.success
              /\ Len(inv[p].result.data) = N - M
              /\ inv[p].pc = "returned" =>
                    /\ inv[p].ret.success
                    /\ Entry(p).status = "success"

\* C7 as claimed: a statement for an absent key adds one row; a statement for a
\* stored key sets that row's value, unit and fetch timestamp to the
\* observation's and leaves the row count, that row's id and every other row.
C7_UpsertSemantics ==
    [][\A p \in Procs :
          inv'[p].records_inserted = inv[p].records_inserted + 1 =>
              LET obs == inv[p].result.data[inv[p].idx]
                  old == TxTableOf(p)
                  new == TxTableOf(p)'
                  Hit(k) == RowKey(p, old[k]) = KeyOf(p, obs)
              IN IF \E k \in 1 .. Len(old) : Hit(k)
                 THEN /\ Len(new) = Len(old)
                      /\ \A k \in 1 .. Len(old) :
                            IF Hit(k)
                            THEN /\ new[k].id = old[k].id
                                 /\ new[k].value = obs.value
                                 /\ new[k].unit = ObsUnit(p, obs)
                                 /\ new[k].fetched_at = clock
                            ELSE new[k] = old[k]
                 ELSE /\ Len(new) = Len(old) + 1
                      /\ \A k \in 1 .. Len(old) : new[k] = old[k]
                      /\ RowKey(p, new[Len(new)]) = KeyOf(p, obs)]_vars

\* C8: with the provider's key not configured an invocation makes no network
\* call and writes no row, and it returns a failure with its audit entry in
\* status error saying that the key is not configured.
C8_MissingCredential ==
    \A p \in Inv :
        Begun(p) /\ ~api_key[inv[p].source] =>
            /\ inv[p].calls = 0
            /\ inv[p].pc \in {"begun", "fetched", "returned"}
            /\ TableOf(p) = <<>> /\ TxTableOf(p) = <<>>
            /\ inv[p].pc = "returned" =>
                  /\ ~inv[p].ret.success
                  /\ Entry(p).status = "error"
                  /\ Entry(p).error_message = NoKeyError(inv[p].source)
                  /\ Entry(p).error_message
                        \in {"No FRED API key configured", "No EIA API key configured"}

\* an invocation has returned with the key of its source missing
C8_Witness ==
    \E p \in Inv : /\ inv[p].pc = "returned" /\ ~api_key[inv[p].source]
                   /\ Entry(p).status = "error"

\* the observations of p's batch all have a committed row
Committed(p) ==
    \A k \in 1 .. Len(inv[p].result.data) :
        \E r \in Range(TableOf(p)) : RowKey(p, r) = KeyOf(p, inv[p].result.data[k])

\* C9: the network call starts with the entry committed as in_progress; when the
\* entry is terminal the invocation holds no uncommitted row and the rows it
\* applied are committed; and once the entry is terminal no table changes.
C9_Ordering ==
    /\ [](\A p \in Inv :
            /\ inv[p].calls > 0 => inv[p].log \in 1 .. Len(fetch_log)
            /\ Begun(p) /\ Entry(p).status \in Terminal =>
                  /\ writer # p
                  /\ txPrices = prices /\ txInventories = inventories
                  /\ inv[p].pc = "returned"
                  /\ (/\ Entry(p).status = "success"
                      /\ Entry(p).records_fetched = Len(inv[p].result.data))
                        => Committed(p))
    /\ [][\A p \in Inv :
             /\ inv'[p].calls > inv[p].calls =>
                   /\ inv[p].log \in 1 .. Len(fetch_log)
                   /\ Entry(p).status = "in_progress"
             /\ Begun(p) /\ Entry(p).status \in Terminal =>
                   UNCHANGED <<prices, inventories, txPrices, txInventories,
                               fetch_log>>]_vars

\* an invocation returned success after committing two rows
C9_Witness ==
    \E p \in Inv :
        /\ Stored(p)
        /\ inv[p].calls = 1
        /\ Entry(p).status = "success"
        /\ Entry(p).records_fetched = 2
        /\ Len(TableOf(p)) = 2

\* C10: a terminal entry never changes again, and completed_at is set only by
\* the step taking the entry from in_progress to a terminal status.
C10_Immutability ==
    /\ [](\A id \in 1 .. Len(fetch_log) :
            fetch_log[id].status = "in_progress" =>
                fetch_log[id].completed_at = NullTime)
    /\ [][/\ Len(fetch_log') >= Len(fetch_log)
          /\ \A id \in 1 .. Len(fetch_log) :
                /\ fetch_log[id].status \in Terminal =>
                      fetch_log'[id] = fetch_log[id]
                /\ fetch_log'[id].completed_at # fetch_log[id].completed_at =>
                      /\ fetch_log[id].status = "in_progress"
                      /\ fetch_log'[id].status \in Terminal]_vars

\* two invocations for one selector are over, one in error and then one in success
C10_Witness ==
    \E p, q \in Inv :
        /\ inv[p].pc = "returned" /\ inv[q].pc = "returned"
        /\ inv[p].source = inv[q].source /\ inv[p].sel = inv[q].sel
        /\ Entry(p).status = "error" /\ Entry(q).status = "success"
        /\ Entry(p).completed_at < Entry(q).completed_at

\* the dates of a batch, and the batch's last observation for a date
DatesOf(data) == {data[k].date : k \in 1 .. Len(data)}

LastOf(data, d) ==
    data[CHOOSE k \in 1 .. Len(data) :
            /\ data[k].date = d
            /\ \A j \in (k + 1) .. Len(data) : data[j].date # d]

\* the rows of a table of p's pipeline that carry p's key for date d
RowsAt(p, tbl, d) ==
    {k \in 1 .. Len(tbl) : RowKey(p, tbl[k]) = KeyOf(p, [date |-> d])}

\* p's rows are committed
Applied(p) == inv[p].pc \in {"stored", "returned"} /\ inv[p].result.success

\* C11: under every interleaving of two invocations (same selector and overlapping
\* dates included) keys stay unique, every date an invocation applied is stored
\* exactly once, no invocation that got a well-formed response fails, and a key
\* holds the value of the invocation that applied it last: the commit of an
\* invocation leaves its value on every key of its batch, and no other step
\* changes the value of a committed row.
C11_ConcurrentOverlap ==
    /\ [](/\ Unique(prices, PriceKey) /\ Unique(inventories, InventoryKey)
          /\ \A p \in Inv :
                /\ Applied(p) =>
                      \A d \in DatesOf(inv[p].result.data) :
                          Cardinality(RowsAt(p, TableOf(p), d)) = 1
                /\ inv[p].response.kind = "ok" =>
                      /\ inv[p].result.success
                      /\ inv[p].pc # "raised"
                      /\ inv[p].pc = "returned" => inv[p].ret.success
          /\ \A p, q \in Inv :
                (/\ p # q /\ Applied(p) /\ Applied(q)
                 /\ inv[p].source = inv[q].source /\ inv[p].sel = inv[q].sel) =>
                    \A d \in DatesOf(inv[p].result.data)
                              \cap DatesOf(inv[q].result.data) :
                        \A k \in RowsAt(p, TableOf(p), d) :
                            TableOf(p)[k].value
                                \in {LastOf(inv[p].result.data, d).value,
                                     LastOf(inv[q].result.data, d).value})
    /\ [][/\ \A p \in Inv :
                inv[p].pc = "fetched" /\ inv'[p].pc = "stored" =>
                    \A d \in DatesOf(inv[p].result.data) :
                        \A k \in RowsAt(p, TableOf(p)', d) :
                            TableOf(p)'[k].value = LastOf(inv[p].result.data, d).value
          /\ \A k \in 1 .. Len(prices) :
                prices'[k].value # prices[k].value =>
                    \E p \in Inv :
                        /\ inv[p].pc = "fetched" /\ inv'[p].pc = "stored"
                        /\ \E d \in DatesOf(inv[p].result.data) :
                              PriceKey(prices[k]) = KeyOf(p, [date |-> d])
          /\ \A k \in 1 .. Len(inventories) :
                inventories'[k].value # inventories[k].value =>
                    \E p \in Inv :
                        /\ inv[p].pc = "fetched" /\ inv'[p].pc = "stored"
                        /\ \E d \in DatesOf(inv[p].result.data) :
                              InventoryKey(inventories[k]) = KeyOf(p, [date |-> d])]_vars

\* a re-fetch started while the first fetch awaited the network, both stored the
\* same date with different values, and the first one applied last
C11_Witness ==
    \E p, q \in Inv :
        /\ p # q /\ Stored(p) /\ Stored(q)
        /\ inv[p].source = inv[q].source /\ inv[p].sel = inv[q].sel
        /\ Entry(p).started_at < Entry(q).started_at
        /\ Entry(q).started_at < Entry(p).completed_at
        /\ Entry(q).completed_at < Entry(p).completed_at
        /\ \E d \in DatesOf(inv[p].result.data) \cap DatesOf(inv[q].result.data) :
              /\ LastOf(inv[p].result.data, d).value
                    # LastOf(inv[q].result.data, d).value
              /\ \A k \in RowsAt(p, TableOf(p), d) :
                    TableOf(p)[k].value = LastOf(inv[p].result.data, d).value

\* the provider's marker of a missing value
Missing(source, v) == IF source = "FRED" THEN v = Str(".") ELSE v = Null

\* the points of a response that are not missing, in order
RECURSIVE Present(_, _)
Present(source, obs) ==
    IF obs = <<>> THEN <<>>
    ELSE IF Missing(source, Head(obs).value) THEN Present(source, Tail(obs))
         ELSE <<Head(obs)>> \o Present(source, Tail(obs))

\* C12: for a response whose points are well-formed values or the provider's
\* missing marker, the adapter succeeds with exactly the points that are not
\* missing, in order and with their values (none turned into 0); the summary and
\* the audit entry count those points, and the store holds one row per date of
\* those points and no row valued 0.
C12_MissingValues ==
    \A p \in Procs :
        LET obs == inv[p].response.obs
            kept == Present(inv[p].source, obs)
        IN (/\ inv[p].response.kind = "ok"
            /\ \A k \in 1 .. Len(obs) : \/ Missing(inv[p].source, obs[k].value)
                                         \/ obs[k].value \in PlainValues)
           => /\ inv[p].result.success
              /\ Len(inv[p].result.data) = Len(kept)
              /\ inv[p].result.count = Len(kept)
              /\ \A k \in 1 .. Len(kept) :
                    /\ inv[p].result.data[k].date = kept[k].date
                    /\ inv[p].result.data[k].value = Float(kept[k].value)
                    /\ inv[p].result.data[k].value # 0
              /\ \A k \in 1 .. Len(TableOf(p)) : TableOf(p)[k].value # 0
              /\ inv[p].pc = "returned" =>
                    /\ inv[p].ret.success
                    /\ inv[p].ret.records_fetched = Len(kept)
                    /\ Entry(p).status = "success"
                    /\ Entry(p).records_fetched = Len(kept)
                    /\ Len(TableOf(p)) = Cardinality(DatesOf(kept))
                    /\ \A d \in DatesOf(kept) :
                          Cardinality(RowsAt(p, TableOf(p), d)) = 1

\* a price request returned for a response of five points, the third one ".":
\* four rows are stored and the entry records 4
C12_Witness ==
    \E p \in Inv :
        /\ inv[p].pc = "returned"
        /\ inv[p].source = "FRED"
        /\ inv[p].response.obs = ScenarioMissing(Str("."), 3)
        /\ Len(inv[p].response.obs) = ScenLen
        /\ Len(prices) = ScenLen - 1
        /\ Entry(p).records_fetched = ScenLen - 1
        /\ \A k \in 1 .. Len(prices) : prices[k].date # 3

\* the price request whose response is the one with the duplicated date has returned
DuplicateIngested(p) ==
    /\ inv[p].pc = "returned"
    /\ inv[p].source = "FRED"
    /\ inv[p].response.kind = "ok"
    /\ inv[p].response.obs = ScenarioDuplicate

\* what the duplicated-date scenario leaves whatever the count: one row for day 1
\* valued 70.0, one row for day 2 valued 71.5, the audit entry in status success
DuplicateStored(p) ==
    /\ Len(prices) = 2
    /\ \A d \in {1, 2} : Cardinality(RowsAt(p, prices, d)) = 1
    /\ \A k \in RowsAt(p, prices, 1) : prices[k].value = 700
    /\ \A k \in RowsAt(p, prices, 2) : prices[k].value = 715
    /\ inv[p].ret.success
    /\ Entry(p).status = "success"

\* C14 as claimed: the scenario ends with one row for day 2 valued 71.5, status
\* success, and 2 as the count of the summary and of the audit entry.
C14_DuplicateDateCountsTwo ==
    \A p \in Inv :
        DuplicateIngested(p) =>
            /\ DuplicateStored(p)
            /\ inv[p].ret.records_fetched = 2
            /\ Entry(p).records_fetched = 2

\* C14 amended: the scenario ends with one row for day 2 valued 71.5, status
\* success, and 3 as the count of the summary and of the audit entry: every
\* executed statement is counted, the update of day 2 included.
C14_DuplicateDateCountsThree ==
    \A p \in Inv :
        DuplicateIngested(p) =>
            /\ DuplicateStored(p)
            /\ inv[p].ret.records_fetched = 3
            /\ Entry(p).records_fetched = 3

\* the scenario has run to its return and the store holds two rows
C14_Witness ==
    \E p \in Inv : DuplicateIngested(p) /\ Len(prices) = 2 /\ inv[p].idx = 4

\* the encodings of a zero reading among the values upstream may send
Zeros == {Str("0"), Num(0)}

\* C13 as claimed: for a response whose points are well-formed values or zeros
\* (the string "0" or the number 0), either adapter keeps every point, a zero
\* with value 0, counts it, and the store holds a row valued 0 for a zero point
\* whose statement executed last for its date.
C13_ZeroIsKept ==
    \A p \in Procs :
        LET obs == inv[p].response.obs IN
        (/\ inv[p].response.kind = "ok"
         /\ \A k \in 1 .. Len(obs) : obs[k].value \in PlainValues \cup Zeros)
        => /\ inv[p].result.success
           /\ inv[p].result.count = Len(obs)
           /\ Len(inv[p].result.data) = Len(obs)
           /\ \A k \in 1 .. Len(obs) :
                 /\ inv[p].result.data[k].date = obs[k].date
                 /\ inv[p].result.data[k].value = Float(obs[k].value)
                 /\ obs[k].value \in Zeros => inv[p].result.data[k].value = 0
           /\ (inv[p].pc = "returned" /\ inv[p].records_inserted = Len(obs)) =>
                 \A d \in DatesOf(obs) :
                     \A k \in RowsAt(p, TableOf(p), d) :
                         TableOf(p)[k].value = Float(LastOf(obs, d).value)

\* process p is inside the loop over its batch
InLoop(p) ==
    /\ inv[p].pc = "fetched"
    /\ inv[p].result.success
    /\ inv[p].idx <= Len(inv[p].result.data)

\* C15: the counter grows by one with every statement that executed (the table of
\* the open transaction took the observation) and stays when the statement raised;
\* a raising statement leaves the invocation in its loop, at the next observation;
\* and a successful invocation reports the counter in its summary and in its
\* audit entry, in status success.
C15_AppliedCount ==
    /\ [](\A p \in Procs :
            /\ inv[p].records_inserted <= inv[p].idx - 1
            /\ inv[p].pc = "returned" /\ inv[p].result.success =>
                  /\ inv[p].ret.success
                  /\ inv[p].ret.records_fetched = inv[p].records_inserted
                  /\ Entry(p).status = "success"
                  /\ Entry(p).records_fetched = inv[p].records_inserted)
    /\ [][\A p \in Procs :
             InLoop(p) /\ inv'[p] # inv[p] =>
                 LET obs == inv[p].result.data[inv[p].idx]
                     t == StoreObs([prices |-> txPrices, inventories |-> txInventories],
                                   inv[p].source, inv[p].sel, obs, clock)
                     executed == TxTableOf(p)' # TxTableOf(p)
                 IN /\ inv'[p].pc = "fetched"
                    /\ inv'[p].idx = inv[p].idx + 1
                    /\ inv'[p].result = inv[p].result
                    /\ IF executed
                       THEN /\ txPrices' = t.prices /\ txInventories' = t.inventories
                            /\ inv'[p].records_inserted = inv[p].records_inserted + 1
                       ELSE /\ UNCHANGED <<txPrices, txInventories>>
                            /\ inv'[p].records_inserted = inv[p].records_inserted]_vars

\* of a batch of two observations the first statement raised and the second
\* executed: the invocation returned success with count 1 and one row stored
C15_Witness ==
    \E p \in Inv :
        /\ Stored(p)
        /\ Len(inv[p].result.data) = 2
        /\ inv[p].records_inserted = 1
        /\ Entry(p).records_fetched = 1
        /\ Len(TableOf(p)) = 1
        /\ RowKey(p, TableOf(p)[1]) = KeyOf(p, inv[p].result.data[2])

\* the selectors the registries know
Known(source) == Range(Registry(source))

\* C16: an operation for a selector that is in no registry is rejected: it makes
\* no network call, creates no audit entry, takes no further step, and neither
\* table ever holds a row of a selector outside the registries.
C16_SelectorValidation ==
    /\ \A p \in Procs :
          (inv[p].pc # "idle" /\ inv[p].sel \notin Known(inv[p].source)) =>
              /\ inv[p].pc = "rejected"
              /\ inv[p].calls = 0
              /\ inv[p].log = 0
              /\ ~inv[p].ret.success
              /\ inv[p].records_inserted = 0
    /\ \A r \in Range(prices) \cup Range(txPrices) :
          r.series_id \in Known("FRED")
    /\ \A r \in Range(inventories) \cup Range(txInventories) :
          r.region \in {AreaRegion(a) : a \in Known("EIA")}
    /\ \A id \in 1 .. Len(fetch_log) :
          \/ fetch_log[id].series_id \in Known("FRED")
          \/ \E a \in Known("EIA") :
                 fetch_log[id].series_id = "distillate_" \o AreaRegion(a)

\* a request for an unknown selector was rejected while a request for a known one
\* stored its rows
C16_Witness ==
    \E p, q \in Inv :
        /\ inv[p].pc = "rejected" /\ inv[p].sel = "BOGUS"
        /\ Stored(q) /\ Len(TableOf(q)) > 0

\* the adapter of p's invocation returned a failure
FetchFailed(p) ==
    inv[p].pc \in {"fetched", "returned"} /\ ~inv[p].result.success

\* C17: an invocation whose adapter returned a failure executes no statement; the
\* steps it takes leave both tables, committed and uncommitted, as they are; the
\* one step that changes the log changes only its own entry, to status error
\* with the adapter's message and the time; and it returns the failure, its
\* entry holding records_fetched 0.
C17_FailedFetchFrame ==
    /\ [](\A p \in Procs :
            FetchFailed(p) =>
                /\ inv[p].records_inserted = 0
                /\ inv[p].idx = 1
                /\ writer # p
                /\ inv[p].pc = "returned" =>
                      /\ ~inv[p].ret.success
                      /\ inv[p].ret.error = inv[p].result.error
                      /\ inv[p].ret.error # None
                      /\ Entry(p).status = "error"
                      /\ Entry(p).error_message = inv[p].result.error
                      /\ Entry(p).records_fetched = 0
                      /\ Entry(p).completed_at # NullTime)
    /\ [][\A p \in Procs :
             (inv'[p] # inv[p] /\ ~inv'[p].result.success
              /\ inv'[p].pc \in {"fetched", "returned"}) =>
                 /\ UNCHANGED <<prices, inventories, txPrices, txInventories, writer>>
                 /\ Len(fetch_log') = Len(fetch_log)
                 /\ \A id \in 1 .. Len(fetch_log) :
                       id # inv[p].log => fetch_log'[id] = fetch_log[id]
                 /\ inv'[p].pc = "fetched" => fetch_log' = fetch_log]_vars

\* after an invocation stored its rows, a second one for the same selector got an
\* HTTP error and returned: the rows and the first entry are as they were
C17_Witness ==
    \E p, q \in Inv :
        /\ Stored(q) /\ Len(TableOf(q)) > 0
        /\ inv[p].source = inv[q].source /\ inv[p].sel = inv[q].sel
        /\ Entry(q).completed_at < Entry(p).started_at
        /\ inv[p].pc = "returned" /\ inv[p].response.kind = "http"
        /\ Entry(p).status = "error" /\ Entry(q).status = "success"
        /\ \A k \in 1 .. Len(TableOf(q)) :
              TableOf(q)[k].fetched_at < Entry(q).completed_at

\* p's run returned before q's run of the same selector was started, both stored
Rerun(p, q) ==
    /\ p # q /\ Stored(p) /\ Stored(q)
    /\ inv[p].source = inv[q].source /\ inv[p].sel = inv[q].sel
    /\ Entry(p).completed_at < Entry(q).started_at

\* C18 as claimed: after run p and then run q of one selector, every date of
\* either batch has exactly one row; a date of the later batch holds the later
\* run's value, unit and fetch timestamp; a date of the first batch only holds
\* the first run's value and timestamp; and applying the later batch once more
\* changes nothing but fetch timestamps.
C18_RerunConvergence ==
    \A p, q \in Inv :
        Rerun(p, q) =>
            LET first == inv[p].result.data
                later == inv[q].result.data
                tbl == TableOf(q)
            IN /\ Len(tbl) = Cardinality(DatesOf(first) \cup DatesOf(later))
               /\ \A d \in DatesOf(first) \cup DatesOf(later) :
                     Cardinality(RowsAt(q, tbl, d)) = 1
               /\ \A d \in DatesOf(later) :
                     \A k \in RowsAt(q, tbl, d) :
                         /\ tbl[k].value = LastOf(later, d).value
                         /\ tbl[k].unit = ObsUnit(q, LastOf(later, d))
                         /\ tbl[k].fetched_at > Entry(q).started_at
                         /\ tbl[k].fetched_at < Entry(q).completed_at
               /\ \A d \in DatesOf(first) \ DatesOf(later) :
                     \A k \in RowsAt(q, tbl, d) :
                         /\ tbl[k].value = LastOf(first, d).value
                         /\ tbl[k].fetched_at < Entry(p).completed_at
               /\ StripAll(StoreAll(Tables, inv[q].source, inv[q].sel, later, clock))
                     = StripAll(Tables)

\* the key under which a summary names its selector
SelectorKey(source) == IF source = "FRED" THEN "series_id" ELSE "region"

\* what a summary has to say to be attributed: flag, count, date range, selector
Structured(ret, source, selector) ==
    /\ {"success", "records_fetched", "date_range", SelectorKey(source)}
          \subseteq ret.keys
    /\ ret.selector = selector
    /\ ~ret.success => "error" \in ret.keys /\ ret.error # None

\* the selector the summary of a call for registry key sel has to name
Named(source, sel) == IF source = "FRED" THEN sel ELSE AreaRegion(sel)

\* C20 as claimed: every invocation that returned, failed or not, returned a
\* summary with its selector, the flag, the count, the date range and (on failure)
\* the error, and every entry of a fan-out's result list names the selector of
\* its position in the registry.
C20_StructuredSummary ==
    /\ \A p \in Procs :
          inv[p].pc = "returned" =>
              Structured(inv[p].ret, inv[p].source, Named(inv[p].source, inv[p].sel))
    /\ \A k \in 1 .. Len(fan.results) :
          Structured(fan.results[k], fan.source,
                     Named(fan.source, Registry(fan.source)[k]))

\* the audit entries of a source that ended in success, and the records they count
LogSuccesses(source) ==
    {id \in 1 .. Len(fetch_log) :
        fetch_log[id].source = source /\ fetch_log[id].status = "success"}

RECURSIVE LogRecords(_, _)
LogRecords(log, source) ==
    IF log = <<>> THEN 0
    ELSE (IF Head(log).source = source /\ Head(log).status = "success"
          THEN Head(log).records_fetched ELSE 0)
         + LogRecords(Tail(log), source)

\* a list of fetch_all_* sums up to part: one result per selector of the registry,
\* as many succeeded as the log has successes, as many records as those count
SumsUp(part, source) ==
    /\ part.of = Len(Registry(source))
    /\ part.fetched = Cardinality(LogSuccesses(source))
    /\ part.records = LogRecords(fetch_log, source)

\* C19 as claimed: a POST to a fetch-all endpoint is answered by the aggregate of
\* its fan-out and by nothing else (not by a single failure, not by an
\* exception); the aggregate counts one result per selector of the registry, the
\* results with success true, and the records of exactly those; and
\* fetch_everything's total is the price total plus the inventory total.
C19_FanOutTotals ==
    /\ \A p \in Inv : inv[p].pc = "rejected" => inv[p].sel # "all"
    /\ fan.caller # None => fan.pc # "raised"
    /\ fan.pc = "answered" =>
          LET a == fan.response IN
          IF fan.caller = "fetch_everything"
          THEN /\ SumsUp(a.fred, "FRED")
               /\ SumsUp(a.eia, "EIA")
               /\ a.fred.fetched = CountSuccess(fan.fred)
               /\ a.eia.fetched = CountSuccess(fan.results)
               /\ a.total_records = a.fred.records + a.eia.records
          ELSE /\ SumsUp(a.part, fan.source)
               /\ Len(a.results) = Len(Registry(fan.source))
               /\ a.part.fetched = CountSuccess(a.results)
               /\ a.total_records = a.part.records

\* C21 as claimed: an invocation that began eventually has returned with its
\* audit entry terminal, and one whose network call timed out or found upstream
\* unreachable has returned a failure with its entry in status error.
C21_NeverHangs ==
    /\ \A p \in Inv :
          (inv[p].pc = "begun")
              ~> (inv[p].pc = "returned" /\ Entry(p).status \in Terminal)
    /\ [](\A p \in Inv :
            (inv[p].pc = "returned" /\ inv[p].response.kind = "unreachable") =>
                /\ ~inv[p].ret.success
                /\ Entry(p).status = "error")

\* the network call of p answered fewer observations than match the request
Cut(p) ==
    /\ inv[p].response.kind = "ok"
    /\ Len(inv[p].response.obs) < inv[p].response.total

\* C22: whenever the adapter's result is a success, whether the provider cut
\* its response at the limit or not, the result's count is the number of
\* observations the result carries, which are the points of the response in
\* the order of the response (newest first), never more than the limit.
C22_CountReturned ==
    \A p \in Inv :
        (inv[p].pc \in {"fetched", "stored", "returned", "raised"}
         /\ inv[p].result.success) =>
            /\ inv[p].result.count = Len(inv[p].result.data)
            /\ inv[p].result.count = Len(inv[p].response.obs)
            /\ inv[p].result.count <= Limit
            /\ \A k \in 1 .. inv[p].result.count :
                  /\ inv[p].result.data[k].date = inv[p].response.obs[k].date
                  /\ inv[p].result.data[k].value = Float(inv[p].response.obs[k].value)

\* C22 witness: upstream holds more observations than the limit, the response is
\* cut and the result's count is the limit, below the number that match.
C22_Witness ==
    \E p \in Inv :
        /\ inv[p].pc = "fetched"
        /\ Cut(p)
        /\ inv[p].result.success
        /\ inv[p].result.count = Limit
        /\ inv[p].result.count < inv[p].response.total

\* C23: an invocation makes at most one network call, whatever the call ends in,
\* and makes it under its own audit entry; the one step that makes a call is the
\* first call of an invocation that has just begun; so there are never more
\* calls than audit entries, and two calls for one selector belong to two
\* invocations with two entries.
C23_NoRetry ==
    /\ [](\A p \in Inv :
            /\ inv[p].calls <= 1
            /\ inv[p].calls = 1 =>
                  /\ Begun(p)
                  /\ inv[p].log \in 1 .. Len(fetch_log)
                  /\ Entry(p).series_id =
                        NewFetchLog(0, inv[p].source, inv[p].sel, 0).series_id
                  /\ \A q \in Inv \ {p} :
                        inv[q].calls = 1 => inv[q].log # inv[p].log)
    /\ [](Cardinality({p \in Inv : inv[p].calls = 1}) <= Len(fetch_log))
    /\ [][\A p \in Inv :
            inv'[p].calls # inv[p].calls =>
                /\ inv[p].calls = 0 /\ inv'[p].calls = 1
                /\ inv[p].pc = "begun" /\ inv'[p].pc = "awaiting"
                /\ inv'[p].log = inv[p].log]_vars

\* C23 witness: an invocation whose one call failed has returned the failure, and
\* a second invocation for the same selector has made its own call under its own
\* entry.
C23_Witness ==
    \E p, q \in Inv :
        /\ p # q
        /\ inv[p].pc = "returned" /\ ~inv[p].ret.success
        /\ inv[p].response.kind \in {"http", "unreachable"}
        /\ inv[p].calls = 1
        /\ inv[q].source = inv[p].source /\ inv[q].sel = inv[p].sel
        /\ inv[q].calls = 1 /\ inv[q].log # inv[p].log
        /\ Entry(p).completed_at < Entry(q).started_at

\* the keys of a table's rows, and the ids of the audit entries
PriceKeys(tbl) == {PriceKey(tbl[k]) : k \in 1 .. Len(tbl)}
InventoryKeys(tbl) == {InventoryKey(tbl[k]) : k \in 1 .. Len(tbl)}
LogIds(log) == {log[k].id : k \in 1 .. Len(log)}

FanSource(path) == IF path[1] = "fred" THEN "FRED" ELSE "EIA"

\* C25 as claimed: a POST to /fetch/fred/all or /fetch/eia/all starts the fan-out
\* over the registry of its pipeline, in the handler written for it, and the
\* parameterised routes never get "all" for a selector.
C25_FetchAllReachable ==
    /\ [](\A p \in Inv : inv[p].sel # "all")
    /\ [][\A path \in {<<"fred", "all">>, <<"eia", "all">>} :
            Post(path) =>
                /\ Handler(path) \in {"fetch_all_fred", "fetch_all_eia"}
                /\ fan'.pc = "running"
                /\ fan'.source = FanSource(path)
                /\ inv' = inv]_vars

\* the dates of the rows p's invocation applied: rows of its selector stamped
\* after its audit entry was created
AppliedDates(p) ==
    {d \in Dates :
        \E r \in Range(TableOf(p)) :
            /\ RowKey(p, r) = KeyOf(p, [date |-> d])
            /\ r.fetched_at > Entry(p).started_at}

\* C26 as claimed: the date range in the summary of a successful invocation is
\* not wider than the dates it applied: it starts no earlier than the oldest
\* applied observation and ends no later than the newest.
C26_ReportedRange ==
    \A p \in Inv :
        Stored(p) =>
            /\ \E d \in AppliedDates(p) : d <= inv[p].ret.date_range[1]
            /\ \E d \in AppliedDates(p) : d >= inv[p].ret.date_range[2]

EntriesOf(r, series_id) ==
    {id \in 1 .. Len(fetch_log) :
        /\ fetch_log[id].source = r.source
        /\ fetch_log[id].series_id = series_id
        /\ fetch_log[id].started_at < r.fetched_at}

\* C28: in every state, the states after a crash at any step included, (a) a
\* committed row has the audit entry of the invocation that wrote it, created
\* before the row; (b) an entry in status success has the rows its invocation
\* applied committed and none left uncommitted; and an invocation ended by a
\* crash has its entry in_progress, whether its rows were committed or not.
C28_CrashConsistency ==
    /\ \A r \in Range(prices) : EntriesOf(r, r.series_id) # {}
    /\ \A r \in Range(inventories) :
          EntriesOf(r, "distillate_" \o r.region) # {}
    /\ \A p \in Inv :
          (Begun(p) /\ Entry(p).status = "success") =>
              /\ writer # p
              /\ Entry(p).records_fetched = Len(inv[p].result.data) =>
                    DatesOf(inv[p].result.data) \subseteq AppliedDates(p)
              /\ Entry(p).records_fetched > 0 =>
                    AppliedDates(p) \cap DatesOf(inv[p].result.data) # {}
    /\ \A p \in Inv :
          inv[p].pc = "crashed" =>
              /\ Entry(p).status = "in_progress"
              /\ writer # p

\* C28 witness: the process died after the commit of the rows and before the
\* completion of the entry: the rows are committed, the entry is in_progress.
C28_Witness ==
    \E p \in Inv :
        /\ inv[p].pc = "crashed"
        /\ inv[p].idx > Len(inv[p].result.data)
        /\ AppliedDates(p) = DatesOf(inv[p].result.data)
        /\ AppliedDates(p) # {}
        /\ Entry(p).status = "in_progress"
        /\ Entry(p).completed_at = NullTime

\* row r of prices / of inventories carries the selector of frame f
PriceOf(f, r) ==
    f.source = "FRED" /\ r.source = "FRED" /\ r.series_id = f.sel

InventoryOf(f, r) ==
    /\ f.source = "EIA" /\ r.source = "EIA"
    /\ r.region = AreaRegion(f.sel) /\ r.product = "distillate"

\* from table old to table new only rows that satisfy Mine were written (or,
\* in the open transaction, rolled back): every other row is where and as it was
WritesOnly(old, new, Mine(_)) ==
    /\ \A k \in 1 .. Len(new) :
          (k > Len(old) \/ new[k] # old[k]) => Mine(new[k])
    /\ \A k \in 1 .. Len(old) :
          (k > Len(new) \/ new[k] # old[k]) => Mine(old[k])

\* C29: a step of the invocation for selector S writes, in the tables and in the
\* open transaction, only rows whose key carries S's source and series_id (for
\* prices) or S's source, region and product (for inventories); every other row
\* stays as it is; the price pipeline leaves inventories alone and the inventory
\* pipeline prices.
C29_SelectorFrame ==
    [][\A p \in Inv :
          inv'[p] # inv[p] =>
              LET f == inv'[p]
                  MyPrice(r) == PriceOf(f, r)
                  MyInventory(r) == InventoryOf(f, r)
              IN /\ WritesOnly(prices, prices', MyPrice)
                 /\ WritesOnly(txPrices, txPrices', MyPrice)
                 /\ WritesOnly(inventories, inventories', MyInventory)
                 /\ WritesOnly(txInventories, txInventories', MyInventory)
                 /\ f.source = "FRED" =>
                       UNCHANGED <<inventories, txInventories>>
                 /\ f.source = "EIA" => UNCHANGED <<prices, txPrices>>]_vars

\* C29 witness: two invocations for two series have both stored the same dates,
\* and each series has its own rows with its own values.
C29_Witness ==
    \E p, q \in Inv :
        /\ Stored(p) /\ Stored(q)
        /\ inv[p].source = "FRED" /\ inv[q].source = "FRED"
        /\ inv[p].sel # inv[q].sel
        /\ DatesOf(inv[p].result.data) = DatesOf(inv[q].result.data)
        /\ Cardinality(DatesOf(inv[p].result.data)) = 2
        /\ Len(prices) = 4
        /\ \E a, b \in Range(prices) :
              /\ a.series_id = inv[p].sel /\ b.series_id = inv[q].sel
              /\ a.date = b.date /\ a.value # b.value

\* C30: concurrent invocations have an audit entry each, of their own selector;
\* as long as an invocation has not completed its entry the entry is
\* in_progress, and once it returned the entry holds its own outcome: its
\* status, its count and its message; and no step of an invocation changes an
\* entry other than its own.
C30_OwnEntry ==
    /\ [](\A p \in Inv :
            Begun(p) =>
                /\ inv[p].log \in 1 .. Len(fetch_log)
                /\ Entry(p).id = inv[p].log
                /\ Entry(p).source = inv[p].source
                /\ Entry(p).series_id =
                      NewFetchLog(0, inv[p].source, inv[p].sel, 0).series_id
                /\ \A q \in Inv \ {p} : Begun(q) => inv[q].log # inv[p].log
                /\ inv[p].pc \in {"begun", "awaiting", "fetched"} =>
                      /\ Entry(p).status = "in_progress"
                      /\ Entry(p).records_fetched = 0
                      /\ Entry(p).error_message = None
                /\ inv[p].pc = "returned" =>
                      /\ Entry(p).status =
                            (IF inv[p].ret.success THEN "success" ELSE "error")
                      /\ Entry(p).records_fetched = inv[p].records_inserted
                      /\ Entry(p).error_message = inv[p].result.error)
    /\ [][\A p \in Inv :
            inv'[p] # inv[p] =>
                \A id \in 1 .. Len(fetch_log) :
                    id # inv'[p].log => fetch_log'[id] = fetch_log[id]]_vars

\* C30 witness: two invocations overlapped in time, the one begun first failed
\* and the other stored two records; each entry holds its own outcome.
C30_Witness ==
    \E p, q \in Inv :
        /\ inv[p].pc = "returned" /\ inv[q].pc = "returned"
        /\ Entry(p).started_at < Entry(q).started_at
        /\ Entry(q).started_at < Entry(p).completed_at
        /\ Entry(p).completed_at < Entry(q).completed_at
        /\ Entry(p).status = "error" /\ Entry(p).records_fetched = 0
        /\ Entry(p).error_message = "HTTP 500"
        /\ Entry(q).status = "success" /\ Entry(q).records_fetched = 2
        /\ Entry(q).error_message = None

====
